---- MODULE Spec2Model ----
(***************************************************************************)
(* Model of Backend/server.js: the upload intake pipeline (POST /upload),  *)
(* the multer temp staging it is configured with, the catalog file         *)
(* movies.json and the two read endpoints over it.                         *)
(*                                                                         *)
(* Strings the code builds by concatenation are TLA+ strings built with    *)
(* \o; strings the code inspects character by character (the argument of   *)
(* sanitizeFilename) are sequences of one-character strings.               *)
(*                                                                         *)
(* Node runs each callback to completion, so a handler is one atomic       *)
(* action; what overlaps between requests is multer's parsing, during      *)
(* which the file parts are stored in uploads/temp one by one.  The clock  *)
(* is the millisecond counter Date.now() reads; it advances between and    *)
(* inside actions.  The one file-system fault modelled is a failing write  *)
(* of movies.json; fs.renameSync and fs.rmdirSync fail when the disk       *)
(* state makes them fail.                                                  *)
(***************************************************************************)
EXTENDS Integers, Sequences, FiniteSets, TLC

VARIABLES
    now,        \* the wall clock Date.now() reads, in milliseconds
    reqs,       \* the upload requests, numbered in the order submitted:
                \* phase and the files multer has stored for each
    tempDir,    \* whether uploads/temp exists
    temp,       \* files in uploads/temp: stored filename -> content
    dirs,       \* item directories under uploads/: name -> (filename -> content)
    catalog,    \* content of movies.json
    okLog,      \* history: the requests answered 200 and the movie each
                \* response carried, in the order answered
    writeFailed,\* history: a write of movies.json has failed part-way
    sent,       \* the exchange the last step completed: request and response
    sanIn,      \* argument of the pure-function specification
    sanOut,     \* its result
    sanDone,    \* whether the function has been applied
    folderOut   \* the folder name createMovieFolderName returned

vars == <<now, reqs, tempDir, temp, dirs, catalog, okLog, writeFailed, sent,
          sanIn, sanOut, sanDone, folderOut>>

-----------------------------------------------------------------------------
(* Bounds *)

NumReq == 2
MaxClock == 2
MaxLen == 4

-----------------------------------------------------------------------------
(* Characters and the filename sanitizer *)

Lower == {"a","b","c","d","e","f","g","h","i","j","k","l","m",
          "n","o","p","q","r","s","t","u","v","w","x","y","z"}
Upper == {"A","B","C","D","E","F","G","H","I","J","K","L","M",
          "N","O","P","Q","R","S","T","U","V","W","X","Y","Z"}
Digit == {"0","1","2","3","4","5","6","7","8","9"}

\* the complement of the class [^a-zA-Z0-9_.-]
SafeChar == Lower \cup Upper \cup Digit \cup {"_", ".", "-"}

\* the input alphabet explored: safe characters of each kind and two
\* characters outside the class
Alphabet == {"a", "Z", "7", "_", ".", "-", " ", "!"}

RECURSIVE StringsUpTo(_)
StringsUpTo(n) ==
    IF n = 0 THEN {<<>>}
    ELSE LET shorter == StringsUpTo(n - 1)
         IN  shorter \cup {Append(s, c) : s \in {t \in shorter : Len(t) = n - 1},
                                          c \in Alphabet}

\* .replace(/[^a-zA-Z0-9_.-]/g, '_')
ReplaceInvalid(s) == [i \in 1..Len(s) |-> IF s[i] \in SafeChar THEN s[i] ELSE "_"]

CollapseKeepRuns(s) == s

\* .replace(/_+/g, '_')
RECURSIVE CollapseUnderscores(_)
CollapseUnderscores(s) ==
    IF Len(s) <= 1 THEN s
    ELSE IF s[1] = "_" /\ s[2] = "_" THEN CollapseUnderscores(Tail(s))
    ELSE <<s[1]>> \o CollapseUnderscores(Tail(s))

sanitizeFilename(filename) == CollapseUnderscores(ReplaceInvalid(filename))

\* a character sequence as the string it spells
RECURSIVE Str(_)
Str(s) == IF s = <<>> THEN "" ELSE Head(s) \o Str(Tail(s))

Min(a, b) == IF a < b THEN a ELSE b

\* String.prototype.slice(0, n)
Slice0(s, n) == SubSeq(s, 1, Min(n, Len(s)))

TitleCap == 30

createMovieFolderNameCapFirst(title, timestamp) ==
    LET sanitizedTitle == sanitizeFilename(Slice0(title, TitleCap))
    IN  ToString(timestamp) \o "-" \o Str(sanitizedTitle)

\* createMovieFolderName, with the value Date.now() returned
createMovieFolderName(title, timestamp) ==
    LET sanitizedTitle == Slice0(sanitizeFilename(title), TitleCap)
    IN  ToString(timestamp) \o "-" \o Str(sanitizedTitle)

-----------------------------------------------------------------------------
(* Values *)

Slots == {"thumbnail", "video"}

EmptyDir == [n \in {} |-> 0]

\* the text fields a client may put into the form; missing and empty are
\* the same to the handler
Titles == {<<>>, <<"a", " ">>, <<"a", "_">>}
Descriptions == {"", "d"}
ThumbnailURLs == {"", "http://i"}
VideoURLs == {"", "http://v"}

\* the original name of the file a client attaches to a slot
OriginalName(slot) ==
    IF slot = "thumbnail" THEN <<"p", " ", ".", "p", "n", "g">>
    ELSE <<"m", ".", "m", "p", "4">>

NoMovie == [id |-> "", title |-> <<>>, description |-> "", folderPath |-> "",
            thumbnail |-> "", video |-> "", uploadDate |-> ""]

NoResponse == [status |-> 0, message |-> "", movie |-> NoMovie, folderPath |-> ""]

IdleRequest == [phase |-> "idle", staged |-> [s \in Slots |-> ""]]

\* no exchange completed by the last step
NoExchange ==
    [op |-> "", r |-> 0, id |-> "", parsed |-> FALSE,
     title |-> <<>>, description |-> "", thumbnailURL |-> "", videoURL |-> "",
     staged |-> [s \in Slots |-> ""],
     status |-> 0, message |-> "", movie |-> NoMovie, folderPath |-> "",
     movies |-> <<>>]

\* new Date().toISOString() of the clock reading
ISOString(t) == ToString(t) \o "Z"

\* JSON.stringify of a value written to a file, and JSON.parse of a file
JSONFile(value) == [kind |-> "json", value |-> value]
TextFile(text) == [kind |-> "text", text |-> text]
Blob(r) == [kind |-> "blob", from |-> r]
\* what a failed write leaves of movies.json: the file truncated on open
Truncated == [kind |-> "text", text |-> ""]
Parses(file) == file.kind = "json"

-----------------------------------------------------------------------------
(* path.extname / path.basename of an original filename without slashes *)

LastDot(s) ==
    LET dots == {i \in 1..Len(s) : s[i] = "."}
    IN  IF dots = {} THEN 0 ELSE CHOOSE i \in dots : \A j \in dots : j <= i

extname(s) == IF LastDot(s) <= 1 THEN <<>> ELSE SubSeq(s, LastDot(s), Len(s))

basename(s, ext) == SubSeq(s, 1, Len(s) - Len(ext))

\* multer.diskStorage filename callback, with the value Date.now() returned
StoredFilename(fieldname, originalname, timestamp) ==
    LET fileExt == extname(originalname)
        baseName == basename(originalname, fileExt)
        sanitizedName == sanitizeFilename(baseName)
    IN  fieldname \o "-" \o ToString(timestamp) \o "-" \o Str(sanitizedName)
            \o Str(fileExt)

-----------------------------------------------------------------------------
(* Initial state: the process has started on an empty working directory *)

Init ==
    /\ now = 1
    /\ reqs = [r \in 1..NumReq |-> IdleRequest]
    /\ tempDir = FALSE
    /\ temp = EmptyDir
    /\ dirs = EmptyDir
    /\ catalog = JSONFile(<<>>)
    /\ okLog = <<>>
    /\ writeFailed = FALSE
    /\ sent = NoExchange
    /\ sanIn = <<>>
    /\ sanOut = <<>>
    /\ sanDone = FALSE
    /\ folderOut = ""

sanVars == <<sanIn, sanOut, sanDone, folderOut>>

\* time passes
Tick ==
    /\ now < MaxClock
    /\ now' = now + 1
    /\ sent' = NoExchange
    /\ UNCHANGED <<reqs, tempDir, temp, dirs, catalog, okLog, writeFailed, sanVars>>

\* a client posts the form; multer starts reading the multipart body, whose
\* parts become known to the server as they are read
Submit(r) ==
    /\ reqs[r].phase = "idle"
    /\ IF r = 1 THEN TRUE ELSE reqs[r - 1].phase # "idle"
    /\ reqs' = [reqs EXCEPT ![r].phase = "parsing"]
    /\ sent' = NoExchange
    /\ UNCHANGED <<now, tempDir, temp, dirs, catalog, okLog, writeFailed, sanVars>>

\* multer reads a file part of the request and stores it in uploads/temp
StageFile(r, slot) ==
    /\ reqs[r].phase = "parsing"
    /\ reqs[r].staged[slot] = ""
    /\ LET uniqueName == StoredFilename(slot, OriginalName(slot), now)
       IN  /\ tempDir' = TRUE
           /\ temp' = (uniqueName :> Blob(r)) @@ temp
           /\ reqs' = [reqs EXCEPT ![r].staged[slot] = uniqueName]
    /\ sent' = NoExchange
    /\ UNCHANGED <<now, dirs, catalog, okLog, writeFailed, sanVars>>

Without(f, name) == [n \in DOMAIN f \ {name} |-> f[n]]

\* multer reports an error: the callback answers 500; multer has removed the
\* files it stored for the request
ParseFail(r) ==
    /\ reqs[r].phase = "parsing"
    /\ reqs' = [reqs EXCEPT ![r].phase = "done"]
    /\ temp' = [n \in DOMAIN temp \ {reqs[r].staged[s] : s \in Slots} |-> temp[n]]
    /\ sent' = [NoExchange EXCEPT !.op = "upload", !.r = r,
                                  !.staged = reqs[r].staged,
                                  !.status = 500, !.message = "Multer error"]
    /\ UNCHANGED <<now, tempDir, dirs, catalog, okLog, writeFailed, sanVars>>
-----------------------------------------------------------------------------
(* POST /upload: the callback multer calls when parsing has completed *)

MissingTitleOnly(title, description) == title = <<>>

\* !title || !description
MissingRequired(title, description) == title = <<>> \/ description = ""

NoAssetsNeverChecked(thumbnailPath, videoPath) == FALSE

\* !thumbnailPath && !videoPath
NoAssets(thumbnailPath, videoPath) == thumbnailPath = "" /\ videoPath = ""

ResolveSlotDegrades(slot, stored, url, movieFolderName, tmp, ds) ==
    IF stored # "" /\ stored \in DOMAIN tmp
    THEN [err |-> "",
          temp |-> Without(tmp, stored),
          dirs |-> [ds EXCEPT ![movieFolderName] = (stored :> tmp[stored]) @@ @],
          path |-> "/uploads/" \o movieFolderName \o "/" \o stored]
    ELSE [err |-> "", temp |-> tmp, dirs |-> ds, path |-> ""]

ResolveSlotUrlFirst(slot, stored, url, movieFolderName, tmp, ds) ==
    IF url # ""
    THEN [err |-> "",
          temp |-> tmp,
          dirs |-> [ds EXCEPT ![movieFolderName] =
                       ((slot \o "-url.txt") :> TextFile(url)) @@ @],
          path |-> url]
    ELSE ResolveSlotDegrades(slot, stored, url, movieFolderName, tmp, ds)

\* The resolution of one slot: the uploaded file is moved from temp into the
\* movie folder, else the URL is kept and written to a sidecar file.
\* err is the error fs.renameSync throws, "" if none.
ResolveSlot(slot, stored, url, movieFolderName, tmp, ds) ==
    IF stored # ""
    THEN IF stored \in DOMAIN tmp
         THEN [err |-> "",
               temp |-> Without(tmp, stored),
               dirs |-> [ds EXCEPT ![movieFolderName] = (stored :> tmp[stored]) @@ @],
               path |-> "/uploads/" \o movieFolderName \o "/" \o stored]
         ELSE [err |-> "ENOENT", temp |-> tmp, dirs |-> ds, path |-> ""]
    ELSE IF url # ""
    THEN [err |-> "",
          temp |-> tmp,
          dirs |-> [ds EXCEPT ![movieFolderName] =
                       ((slot \o "-url.txt") :> TextFile(url)) @@ @],
          path |-> url]
    ELSE [err |-> "", temp |-> tmp, dirs |-> ds, path |-> ""]

RmdirNeverFails(ds, name) == FALSE

\* fs.rmdirSync: removes an empty directory, throws on one that has entries
RmdirFails(ds, name) == DOMAIN ds[name] # {}

\* the outcomes of fs.writeFileSync(moviesFile, ...): written; failed on open,
\* file untouched; failed after the file was truncated
WriteOutcomes == {"ok", "EACCES", "ENOSPC"}

ReadMoviesStale(file) == <<>>

\* movies = JSON.parse(readFileSync(moviesFile)) inside try/catch
ReadMoviesOrEmpty(file) == IF Parses(file) THEN file.value ELSE <<>>

PushFront(movies, newMovie) == <<newMovie>> \o movies

\* movies.push(newMovie)
Push(movies, newMovie) == Append(movies, newMovie)

ServerErrorNotSent(msg) == NoResponse

\* the catch of the callback: res.status(500).json(...)
ServerError(msg) ==
    [NoResponse EXCEPT !.status = 500, !.message = "Server error: " \o msg]

\* The try block of the callback for a request with text fields body and
\* stored files staged, run on the disk (tmp, ds, cat): t1 is the clock read
\* by createMovieFolderName, t2 the clock read for the metadata, w the outcome
\* of the catalog write.  The result is the response, the disk the handler
\* leaves, and whether the run got as far as reading t2 and writing the
\* catalog.
ProcessUpload(body, staged, t1, t2, w, tmp, ds, cat) ==
    IF MissingRequired(body.title, body.description)
    THEN [resp |-> [NoResponse EXCEPT !.status = 400,
                       !.message = "Title and description are required"],
          temp |-> tmp, dirs |-> ds, catalog |-> cat,
          readT2 |-> FALSE, triedWrite |-> FALSE]
    ELSE
    LET movieFolderName == createMovieFolderName(body.title, t1)
        ds0 == IF movieFolderName \in DOMAIN ds THEN ds
               ELSE (movieFolderName :> EmptyDir) @@ ds
        th == ResolveSlot("thumbnail", staged["thumbnail"], body.thumbnailURL,
                          movieFolderName, tmp, ds0)
    IN
    IF th.err # ""
    THEN [resp |-> ServerError(th.err),
          temp |-> th.temp, dirs |-> th.dirs, catalog |-> cat,
          readT2 |-> FALSE, triedWrite |-> FALSE]
    ELSE
    LET vi == ResolveSlot("video", staged["video"], body.videoURL,
                          movieFolderName, th.temp, th.dirs)
    IN
    IF vi.err # ""
    THEN [resp |-> ServerError(vi.err),
          temp |-> vi.temp, dirs |-> vi.dirs, catalog |-> cat,
          readT2 |-> FALSE, triedWrite |-> FALSE]
    ELSE
    LET metadata == [id |-> ToString(t2), title |-> body.title,
                     description |-> body.description,
                     uploadDate |-> ISOString(t2),
                     thumbnail |-> th.path, video |-> vi.path]
        ds1 == [vi.dirs EXCEPT ![movieFolderName] =
                   ("metadata.json" :> JSONFile(metadata)) @@ @]
    IN
    IF NoAssets(th.path, vi.path)
    THEN IF RmdirFails(ds1, movieFolderName)
         THEN [resp |-> ServerError("ENOTEMPTY"),
               temp |-> vi.temp, dirs |-> ds1, catalog |-> cat,
               readT2 |-> TRUE, triedWrite |-> FALSE]
         ELSE [resp |-> [NoResponse EXCEPT !.status = 400,
                            !.message = "Please provide at least one thumbnail and one video (file or URL)"],
               temp |-> vi.temp, dirs |-> Without(ds1, movieFolderName),
               catalog |-> cat,
               readT2 |-> TRUE, triedWrite |-> FALSE]
    ELSE
    LET newMovie == [id |-> metadata.id, title |-> body.title,
                     description |-> body.description,
                     folderPath |-> movieFolderName,
                     thumbnail |-> th.path, video |-> vi.path,
                     uploadDate |-> metadata.uploadDate]
        movies == Push(ReadMoviesOrEmpty(cat), newMovie)
    IN
    IF w = "ok"
    THEN [resp |-> [status |-> 200, message |-> "Movie added successfully",
                    movie |-> newMovie, folderPath |-> movieFolderName],
          temp |-> vi.temp, dirs |-> ds1, catalog |-> JSONFile(movies),
          readT2 |-> TRUE, triedWrite |-> TRUE]
    ELSE [resp |-> ServerError(w),
          temp |-> vi.temp, dirs |-> ds1,
          catalog |-> IF w = "ENOSPC" THEN Truncated ELSE cat,
          readT2 |-> TRUE, triedWrite |-> TRUE]

Bodies ==
    [title : Titles, description : Descriptions,
     thumbnailURL : ThumbnailURLs, videoURL : VideoURLs]

\* multer has read the whole request without error and calls the callback,
\* which runs to its response without yielding; the clock advances by d
\* between its two readings, and w is the outcome of the catalog write (d and
\* w are fixed to 0 and "ok" on the paths that do not get that far)
Upload(r, body, d, w) ==
    /\ reqs[r].phase = "parsing"
    /\ now + d <= MaxClock
    /\ \E out \in {ProcessUpload(body, reqs[r].staged, now, now + d, w,
                                temp, dirs, catalog)} :
           /\ out.readT2 \/ d = 0
           /\ out.triedWrite \/ w = "ok"
           /\ reqs' = [reqs EXCEPT ![r].phase = "done"]
           /\ temp' = out.temp
           /\ dirs' = out.dirs
           /\ catalog' = out.catalog
           /\ writeFailed' = (writeFailed \/ out.catalog = Truncated)
           /\ okLog' = IF out.resp.status = 200
                       THEN Append(okLog, [r |-> r, movie |-> out.resp.movie])
                       ELSE okLog
           /\ sent' = [NoExchange EXCEPT
                          !.op = "upload", !.r = r, !.parsed = TRUE,
                          !.title = body.title, !.description = body.description,
                          !.thumbnailURL = body.thumbnailURL,
                          !.videoURL = body.videoURL,
                          !.staged = reqs[r].staged,
                          !.status = out.resp.status,
                          !.message = out.resp.message,
                          !.movie = out.resp.movie,
                          !.folderPath = out.resp.folderPath]
    /\ now' = now + d
    /\ UNCHANGED <<tempDir, sanVars>>

-----------------------------------------------------------------------------
(* The read endpoints *)

Ids == {ToString(t) : t \in 1..MaxClock}

\* movies.find(m => m.id === id): the first match, NoMovie for undefined
Find(movies, id) ==
    LET hits == {i \in 1..Len(movies) : movies[i].id = id}
    IN  IF hits = {} THEN NoMovie
        ELSE movies[CHOOSE i \in hits : \A j \in hits : i <= j]

ListMoviesEmptyOnError ==
    /\ sent' = [NoExchange EXCEPT !.op = "list", !.status = 200,
                    !.movies = IF catalog.kind = "json" THEN catalog.value ELSE <<>>]
    /\ UNCHANGED <<now, reqs, tempDir, temp, dirs, catalog, okLog, writeFailed, sanVars>>

\* GET /api/movies
ListMovies ==
    /\ sent' = IF Parses(catalog)
               THEN [NoExchange EXCEPT !.op = "list", !.status = 200,
                                       !.movies = catalog.value]
               ELSE [NoExchange EXCEPT !.op = "list", !.status = 500,
                                       !.message = "Error reading movies"]
    /\ UNCHANGED <<now, reqs, tempDir, temp, dirs, catalog, okLog, writeFailed, sanVars>>

\* GET /api/movies/:id
GetMovie(id) ==
    /\ sent' =
          IF ~Parses(catalog)
          THEN [NoExchange EXCEPT !.op = "get", !.id = id, !.status = 500,
                                  !.message = "Error reading movie"]
          ELSE IF Find(catalog.value, id) = NoMovie
          THEN [NoExchange EXCEPT !.op = "get", !.id = id, !.status = 404,
                                  !.message = "Movie not found"]
          ELSE [NoExchange EXCEPT !.op = "get", !.id = id, !.status = 200,
                                  !.movie = Find(catalog.value, id)]
    /\ UNCHANGED <<now, reqs, tempDir, temp, dirs, catalog, okLog, writeFailed, sanVars>>

-----------------------------------------------------------------------------
(* Specifications *)

Next ==
    \/ Tick
    \/ \E r \in 1..NumReq : Submit(r)
    \/ \E r \in 1..NumReq, slot \in Slots : StageFile(r, slot)
    \/ \E r \in 1..NumReq : ParseFail(r)
    \/ \E r \in 1..NumReq, body \in Bodies, d \in 0..1, w \in WriteOutcomes :
          Upload(r, body, d, w)
    \/ ListMovies
    \/ \E id \in Ids : GetMovie(id)

Spec == Init /\ [][Next]_vars

\* the pure functions applied to every string over Alphabet up to MaxLen
InitSan ==
    /\ now = 1
    /\ reqs = [r \in 1..NumReq |-> IdleRequest]
    /\ tempDir = FALSE
    /\ temp = EmptyDir
    /\ dirs = EmptyDir
    /\ catalog = JSONFile(<<>>)
    /\ okLog = <<>>
    /\ writeFailed = FALSE
    /\ sent = NoExchange
    /\ sanIn \in StringsUpTo(MaxLen)
    /\ sanOut = <<>>
    /\ sanDone = FALSE
    /\ folderOut = ""

Sanitize ==
    /\ ~sanDone
    /\ sanOut' = sanitizeFilename(sanIn)
    /\ sanDone' = TRUE
    /\ UNCHANGED <<now, reqs, tempDir, temp, dirs, catalog, okLog, writeFailed, sent,
                   sanIn, folderOut>>

NextSan == Sanitize

SpecSan == InitSan /\ [][NextSan]_vars

\* titles around the cap of the folder name: every string over Alphabet up to
\* MaxLen, alone and behind TitleCap - 2 characters that need no replacing
Pad(n) == [i \in 1..n |-> "a"]

FolderTitles ==
    StringsUpTo(MaxLen) \cup {Pad(TitleCap - 2) \o s : s \in StringsUpTo(MaxLen)}

InitFolder ==
    /\ now \in 1..MaxClock
    /\ reqs = [r \in 1..NumReq |-> IdleRequest]
    /\ tempDir = FALSE
    /\ temp = EmptyDir
    /\ dirs = EmptyDir
    /\ catalog = JSONFile(<<>>)
    /\ okLog = <<>>
    /\ writeFailed = FALSE
    /\ sent = NoExchange
    /\ sanIn \in FolderTitles
    /\ sanOut = <<>>
    /\ sanDone = FALSE
    /\ folderOut = ""

MakeFolderName ==
    /\ ~sanDone
    /\ folderOut' = createMovieFolderName(sanIn, now)
    /\ sanDone' = TRUE
    /\ UNCHANGED <<now, reqs, tempDir, temp, dirs, catalog, okLog, writeFailed, sent,
                   sanIn, sanOut>>

NextFolder == MakeFolderName

SpecFolder == InitFolder /\ [][NextFolder]_vars

-----------------------------------------------------------------------------
(* Properties *)

\* the step completes an upload whose multipart body multer parsed
Handled(x) == x.op = "upload" /\ x.parsed

NoFiles(x) == \A s \in Slots : x.staged[s] = ""

Movies == IF Parses(catalog) THEN catalog.value ELSE <<>>

\* C1: an upload with title and description but no file and no URL in
\* either slot is answered 400 (incomplete assets), the movie folder created
\* for it no longer exists, and movies.json is as it was before.
C1_NoAssetsRejectedAndCleaned ==
    [][(/\ Handled(sent')
        /\ ~MissingRequired(sent'.title, sent'.description)
        /\ NoFiles(sent')
        /\ sent'.thumbnailURL = "" /\ sent'.videoURL = "")
       => (/\ sent'.status = 400
           /\ createMovieFolderName(sent'.title, now) \notin DOMAIN dirs'
           /\ catalog' = catalog)]_vars

\* C2: an upload whose title or description is missing or empty is answered
\* 400 (validation), whatever files or URLs it carries; no movie folder is
\* created and movies.json is unchanged.
C2_MissingFieldsRejected ==
    [][(Handled(sent') /\ (sent'.title = <<>> \/ sent'.description = ""))
       => (/\ sent'.status = 400
           /\ sent'.message = "Title and description are required"
           /\ dirs' = dirs
           /\ catalog' = catalog)]_vars

C2_Witness ==
    /\ Handled(sent)
    /\ sent.title # <<>> /\ sent.description = ""
    /\ sent.staged["thumbnail"] # "" /\ sent.videoURL # ""
    /\ sent.status = 400

\* the movies the 200 responses carried, in the order the uploads were
\* submitted
RECURSIVE AnsweredFrom(_)
AnsweredFrom(r) ==
    IF r > NumReq THEN <<>>
    ELSE LET mine == {i \in 1..Len(okLog) : okLog[i].r = r}
         IN  (IF mine = {} THEN <<>> ELSE <<okLog[CHOOSE i \in mine : TRUE].movie>>)
                 \o AnsweredFrom(r + 1)

InSubmissionOrder == AnsweredFrom(1)

\* the same movies in the order the uploads were answered
InAnswerOrder == [i \in 1..Len(okLog) |-> okLog[i].movie]

C4_FileAndUrlSucceeds ==
    [][(/\ Handled(sent')
        /\ ~MissingRequired(sent'.title, sent'.description)
        /\ sent'.staged["thumbnail"] # "" /\ sent'.staged["video"] = ""
        /\ sent'.videoURL # ""
        /\ sent'.message \notin {"Server error: ENOSPC", "Server error: EACCES"})
       => (/\ sent'.status = 200
           /\ sent'.folderPath \in DOMAIN dirs'
           /\ sent'.movie.thumbnail =
                 "/uploads/" \o sent'.folderPath \o "/" \o sent'.staged["thumbnail"]
           /\ sent'.staged["thumbnail"] \notin DOMAIN temp'
           /\ sent'.staged["thumbnail"] \in DOMAIN dirs'[sent'.folderPath]
           /\ sent'.movie.video = sent'.videoURL
           /\ "video-url.txt" \in DOMAIN dirs'[sent'.folderPath]
           /\ dirs'[sent'.folderPath]["video-url.txt"] = TextFile(sent'.videoURL)
           /\ catalog' = JSONFile(Append(ReadMoviesOrEmpty(catalog), sent'.movie))
           /\ dirs'[sent'.folderPath]["metadata.json"].value.id = sent'.movie.id)]_vars

\* C5: GET /api/movies/:id answers 404 when no upload answered 200 carried
\* the id, and otherwise returns the movie that each upload answered 200 with
\* that id returned (stated for runs in which no write of movies.json
\* failed).
C5_GetReturnsSubmitted ==
    (sent.op = "get" /\ ~writeFailed)
        => LET known == {i \in 1..Len(okLog) : okLog[i].movie.id = sent.id}
           IN  IF known = {} THEN sent.status = 404
               ELSE /\ sent.status = 200
                    /\ \A i \in known : sent.movie = okLog[i].movie

C7_EntriesHaveAnAsset ==
    \A i \in 1..Len(Movies) : Movies[i].thumbnail # "" \/ Movies[i].video # ""

C7_Witness ==
    /\ Len(Movies) = 1
    /\ Movies[1].thumbnail = "" /\ Movies[1].video # ""
    /\ Handled(sent) /\ ~MissingRequired(sent.title, sent.description)
    /\ NoFiles(sent) /\ sent.thumbnailURL = "" /\ sent.videoURL = ""

\* C8: for every entry of movies.json, the metadata.json in the folder the
\* entry names agrees with it on id, title, description, thumbnail and video.
C8_MetadataAgreesWithCatalog ==
    \A i \in 1..Len(Movies) :
        LET m == Movies[i]
        IN  /\ m.folderPath \in DOMAIN dirs
            /\ "metadata.json" \in DOMAIN dirs[m.folderPath]
            /\ LET md == dirs[m.folderPath]["metadata.json"].value
               IN  /\ md.id = m.id
                   /\ md.title = m.title
                   /\ md.description = m.description
                   /\ md.thumbnail = m.thumbnail
                   /\ md.video = m.video

\* C9: sanitizeFilename returns only characters of [A-Za-z0-9_.-] and never
\* two consecutive underscores.
C9_SanitizedIsSafe ==
    sanDone =>
        /\ \A i \in 1..Len(sanOut) : sanOut[i] \in SafeChar
        /\ \A i \in 1..(Len(sanOut) - 1) : ~(sanOut[i] = "_" /\ sanOut[i + 1] = "_")

C9_Witness ==
    /\ sanDone
    /\ sanIn = <<" ", "!", "_", "a">>
    /\ sanOut = <<"_", "a">>

\* C10: any two distinct entries of movies.json have different ids.
C10_IdsUnique ==
    \A i, j \in 1..Len(Movies) : i # j => Movies[i].id # Movies[j].id

C12_RejectedLeavesNothing ==
    [][(Handled(sent') /\ sent'.status = 400)
       => (/\ DOMAIN dirs' \subseteq DOMAIN dirs
           /\ \A f \in DOMAIN dirs' : DOMAIN dirs'[f] \subseteq DOMAIN dirs[f]
           /\ \A s \in Slots :
                 sent'.staged[s] # "" => sent'.staged[s] \notin DOMAIN temp')]_vars

\* the callback runs on a request one of whose stored files is no longer in
\* uploads/temp, so that fs.renameSync fails for that slot
MoveFails(x, tmp) ==
    \E s \in Slots : x.staged[s] # "" /\ x.staged[s] \notin DOMAIN tmp

\* C13: when moving a stored file from uploads/temp into the movie folder
\* fails for either slot, the upload is answered 500 and movies.json is left
\* as it was; the slot is never given an empty reference and the upload
\* answered 200.
C13_MoveFailureIs500 ==
    [][(/\ Handled(sent')
        /\ ~MissingRequired(sent'.title, sent'.description)
        /\ MoveFails(sent', temp))
       => (/\ sent'.status = 500
           /\ sent'.message = "Server error: ENOENT"
           /\ catalog' = catalog
           /\ okLog' = okLog)]_vars

\* the video file of a request is gone from uploads/temp when its callback
\* runs; its thumbnail URL alone would have made a complete entry
C13_Witness ==
    /\ Handled(sent)
    /\ sent.staged["video"] # "" /\ sent.staged["video"] \notin DOMAIN temp
    /\ sent.staged["thumbnail"] = "" /\ sent.thumbnailURL # ""
    /\ sent.status = 500 /\ sent.message = "Server error: ENOENT"
    /\ Len(Movies) = 1

IsPrefix(a, b) == Len(a) <= Len(b) /\ SubSeq(b, 1, Len(a)) = a

\* C14: every operation (an upload with any outcome, a list, a get-by-id)
\* leaves movies.json with its former entries as a prefix, in their order and
\* unmodified, and with at most one entry more, also when the file was
\* unreadable at the moment of the append.
C14_AppendOnly ==
    [][IsPrefix(Movies, Movies') /\ Len(Movies') <= Len(Movies) + 1]_vars

\* C15: for every entry of movies.json, the movie folder named by its
\* folderPath exists and holds a metadata.json (the callback creates the
\* folder and writes metadata.json before it appends the entry, and no folder
\* an entry names is removed afterwards).
C15_EntriesHaveFolder ==
    \A i \in 1..Len(Movies) :
        /\ Movies[i].folderPath \in DOMAIN dirs
        /\ "metadata.json" \in DOMAIN dirs[Movies[i].folderPath]

\* an upload without assets has run its cleanup on the folder an entry names
C15_Witness ==
    /\ Len(Movies) = 1
    /\ Handled(sent) /\ NoFiles(sent)
    /\ sent.thumbnailURL = "" /\ sent.videoURL = ""
    /\ sent.message = "Server error: ENOTEMPTY"
    /\ createMovieFolderName(sent.title, now) = Movies[1].folderPath
    /\ "metadata.json" \in DOMAIN dirs[Movies[1].folderPath]

UrlOf(x, slot) == IF slot = "thumbnail" THEN x.thumbnailURL ELSE x.videoURL

RefOf(movie, slot) == IF slot = "thumbnail" THEN movie.thumbnail ELSE movie.video

\* the names in a movie folder, none if the folder does not exist
Files(ds, folder) == IF folder \in DOMAIN ds THEN DOMAIN ds[folder] ELSE {}

\* the {slot}-url.txt of a movie folder, if there is one
Sidecar(ds, folder, slot) ==
    IF (slot \o "-url.txt") \in Files(ds, folder)
    THEN <<ds[folder][slot \o "-url.txt"]>>
    ELSE <<>>

\* C16: for each slot on its own, a request that carries both a file and a
\* URL for the slot gets the reference /uploads/{folder}/{stored filename}
\* and no {slot}-url.txt is written; a request that carries neither gets the
\* empty reference and nothing is written to the folder for the slot.
C16_FileBeforeUrl ==
    [][Handled(sent')
       => \A s \in Slots :
            LET folder == createMovieFolderName(sent'.title, now)
                other == CHOOSE o \in Slots : o # s
                both == sent'.staged[s] # "" /\ UrlOf(sent', s) # ""
                neither == sent'.staged[s] = "" /\ UrlOf(sent', s) = ""
            IN  /\ (both \/ neither)
                      => Sidecar(dirs', folder, s) = Sidecar(dirs, folder, s)
                /\ (both /\ sent'.status = 200)
                      => RefOf(sent'.movie, s)
                            = "/uploads/" \o folder \o "/" \o sent'.staged[s]
                /\ (neither /\ sent'.status = 200) => RefOf(sent'.movie, s) = ""
                /\ neither
                      => (Files(dirs', folder) \ Files(dirs, folder))
                            \subseteq {"metadata.json", sent'.staged[other],
                                       other \o "-url.txt"}]_vars

\* a thumbnail file sent together with a thumbnail URL, and nothing for the
\* video
C16_Witness ==
    /\ Handled(sent) /\ sent.status = 200
    /\ sent.staged["thumbnail"] # "" /\ sent.thumbnailURL # ""
    /\ sent.staged["video"] = "" /\ sent.videoURL = ""
    /\ sent.movie.video = ""
    /\ sent.movie.thumbnail # sent.thumbnailURL
    /\ Sidecar(dirs, sent.movie.folderPath, "thumbnail") = <<>>

\* the step sends a response to upload request r
Answers(x, r) == x.op = "upload" /\ x.r = r /\ x.status # 0

\* C17: an upload request whose callback runs gets exactly one response, with
\* status 200, 400 or 500: the step that ends the request sends one, whatever
\* path the callback takes, and no step sends a response to a request that is
\* not being parsed or has been answered.
C17_ExactlyOneResponse ==
    [][\A r \in 1..NumReq :
          /\ (reqs[r].phase = "parsing" /\ reqs'[r].phase = "done")
                => (Answers(sent', r) /\ sent'.status \in {200, 400, 500})
          /\ Answers(sent', r)
                => (reqs[r].phase = "parsing" /\ reqs'[r].phase = "done")
          /\ reqs[r].phase = "done" => reqs'[r].phase = "done"]_vars

\* every request has been answered, the last one after its catalog write
\* failed
C17_Witness ==
    /\ \A r \in 1..NumReq : reqs[r].phase = "done"
    /\ Handled(sent) /\ sent.status = 500
    /\ sent.message = "Server error: EACCES"
    /\ Len(okLog) = 1

\* C18 as claimed: the folder name is the timestamp, "-", and the result of
\* sanitizing the first TitleCap characters of the title.
C18_CapThenSanitize ==
    sanDone
        => folderOut
              = ToString(now) \o "-"
                   \o Str(sanitizeFilename(SubSeq(sanIn, 1, Min(TitleCap, Len(sanIn)))))

\* C18, amended: the folder name is the timestamp, "-", and the first
\* TitleCap characters of the sanitized title (the whole title is sanitized,
\* then the result is capped).
C18_SanitizeThenCap ==
    sanDone
        => LET clean == sanitizeFilename(sanIn)
           IN  /\ Len(clean) <= TitleCap
                     => folderOut = ToString(now) \o "-" \o Str(clean)
               /\ Len(clean) > TitleCap
                     => folderOut
                           = ToString(now) \o "-" \o Str(SubSeq(clean, 1, TitleCap))

\* a title longer than the cap whose sanitized form is shorter than the
\* title: the two orders give different names
C18_Witness ==
    /\ sanDone
    /\ Len(sanIn) > TitleCap
    /\ Len(sanitizeFilename(sanIn)) < Len(sanIn)
    /\ folderOut
          # ToString(now) \o "-" \o Str(sanitizeFilename(SubSeq(sanIn, 1, TitleCap)))

====
